---- MODULE Spec2Model ----
(***************************************************************************)
(* A model of windsurf_analytics_exporter.py: the WindsurfAnalyticsExporter*)
(* class (roster fetch, per-user metrics fetch, aggregation, CSV export)   *)
(* and the run_export driver.                                              *)
(*                                                                         *)
(* Representation of Python values:                                        *)
(*   - a dict is a function; a key that is absent is absent from DOMAIN,   *)
(*     and d.get(k, default) is Get(d, k, default);                        *)
(*   - the keys of an OUTPUT record and the tool names are strings whose   *)
(*     characters matter (str.lower, sorted): they are sequences of        *)
(*     Unicode code points; every other string is a TLA+ string;           *)
(*   - the numbers of a metrics response arrive as decimal strings (the    *)
(*     reason the code wraps them in int()): sequences of digits, which    *)
(*     int() parses;                                                       *)
(*   - a formatted number (an f-string) is the sequence of its pieces.     *)
(***************************************************************************)
EXTENDS Integers, Sequences, FiniteSets, TLC

VARIABLES
  pc,             \* where run_export / the process stands
  batch_size,     \* run_export's batch_size argument
  users,          \* the roster returned by get_user_emails
  emails,         \* run_export's emails list
  idx,            \* run_export's loop index into emails (1-based)
  analytics_data, \* the metrics response being processed
  all_records,    \* run_export's accumulator
  requests,       \* every POST issued so far, in order
  writer_calls,   \* the arguments of every export_to_csv call, in order
  csv_file,       \* the output file: NoFile or [header, rows]
  exit_status,    \* "running", or the process's exit status
  log,            \* the messages printed that the claims speak of
  failed          \* history: the loop indices whose metrics request failed

vars == <<pc, batch_size, users, emails, idx, analytics_data, all_records,
          requests, writer_calls, csv_file, exit_status, log, failed>>

----------------------------------------------------------------------------
(* Bounds of the model. *)

\* The longest roster the roster endpoint returns.
MaxUsers == 2

\* The most stat entries a metrics response carries, over all its results.
MaxStats == 2

----------------------------------------------------------------------------
(* Python dicts and strings. *)

EmptyDict == [k \in {} |-> 0]

Get(d, k, default) == IF k \in DOMAIN d THEN d[k] ELSE default

Min(a, b) == IF a <= b THEN a ELSE b

\* str.lower on one code point (ASCII letters A-Z).
LowerChar(c) == IF c >= 65 /\ c <= 90 THEN c + 32 ELSE c

\* str.lower
Lower(s) == [i \in 1..Len(s) |-> LowerChar(s[i])]

\* Python's str ordering: lexicographic on code points, a proper prefix first.
RECURSIVE StrLess(_, _)
StrLess(a, b) ==
  IF Len(b) = 0 THEN FALSE
  ELSE IF Len(a) = 0 THEN TRUE
  ELSE IF a[1] # b[1] THEN a[1] < b[1]
  ELSE StrLess(Tail(a), Tail(b))

\* sorted(list(S)) for a set S of strings.
RECURSIVE Sorted(_)
Sorted(S) ==
  IF S = {} THEN <<>>
  ELSE LET least == CHOOSE x \in S : \A y \in S \ {x} : StrLess(x, y)
       IN <<least>> \o Sorted(S \ {least})

\* int(s) for a decimal string s, a sequence of digits.
RECURSIVE PyInt(_)
PyInt(s) ==
  IF Len(s) = 0 THEN 0
  ELSE 10 * PyInt(SubSeq(s, 1, Len(s) - 1)) + s[Len(s)]

\* int(d.get(k, 0)): the default 0 is an int already.
IntField(d, k) == IF k \in DOMAIN d THEN PyInt(d[k]) ELSE 0

\* Two digits of a number below 100, as the format "{:02d}" prints them.
TwoDigits(n) == IF n < 10 THEN "0" \o ToString(n) ELSE ToString(n)

\* f"{h/100:.2f}" for a count h of hundredths.
Fixed2(h) == <<ToString(h \div 100), ".", TwoDigits(h % 100)>>

\* The names of an output record's fixed fields, as code points.
k_email == <<101, 109, 97, 105, 108>>
k_name == <<110, 97, 109, 101>>
k_active_days == <<97, 99, 116, 105, 118, 101, 95, 100, 97, 121, 115>>
k_last_update_time ==
  <<108, 97, 115, 116, 95, 117, 112, 100, 97, 116, 101, 95, 116, 105, 109, 101>>
k_last_autocomplete_usage ==
  <<108, 97, 115, 116, 95, 97, 117, 116, 111, 99, 111, 109, 112, 108, 101, 116,
    101, 95, 117, 115, 97, 103, 101>>
k_last_chat_usage ==
  <<108, 97, 115, 116, 95, 99, 104, 97, 116, 95, 117, 115, 97, 103, 101>>
k_last_command_usage ==
  <<108, 97, 115, 116, 95, 99, 111, 109, 109, 97, 110, 100, 95, 117, 115, 97,
    103, 101>>
k_total_lines_suggested ==
  <<116, 111, 116, 97, 108, 95, 108, 105, 110, 101, 115, 95, 115, 117, 103, 103,
    101, 115, 116, 101, 100>>
k_total_lines_accepted ==
  <<116, 111, 116, 97, 108, 95, 108, 105, 110, 101, 115, 95, 97, 99, 99, 101,
    112, 116, 101, 100>>
k_acceptance_rate ==
  <<97, 99, 99, 101, 112, 116, 97, 110, 99, 101, 95, 114, 97, 116, 101>>
k_total_messages_sent ==
  <<116, 111, 116, 97, 108, 95, 109, 101, 115, 115, 97, 103, 101, 115, 95, 115,
    101, 110, 116>>
k_total_prompts_used_cents ==
  <<116, 111, 116, 97, 108, 95, 112, 114, 111, 109, 112, 116, 115, 95, 117, 115,
    101, 100, 95, 99, 101, 110, 116, 115>>
k_total_prompts_used_credits ==
  <<116, 111, 116, 97, 108, 95, 112, 114, 111, 109, 112, 116, 115, 95, 117, 115,
    101, 100, 95, 99, 114, 101, 100, 105, 116, 115>>
k_total_unique_cascades ==
  <<116, 111, 116, 97, 108, 95, 117, 110, 105, 113, 117, 101, 95, 99, 97, 115,
    99, 97, 100, 101, 115>>

\* The prefix "tool_" of a tool column.
tool_prefix == <<116, 111, 111, 108, 95>>

FixedKeys ==
  {k_email, k_name, k_active_days, k_last_update_time,
   k_last_autocomplete_usage, k_last_chat_usage, k_last_command_usage,
   k_total_lines_suggested, k_total_lines_accepted, k_acceptance_rate,
   k_total_messages_sent, k_total_prompts_used_cents,
   k_total_prompts_used_credits, k_total_unique_cascades}

----------------------------------------------------------------------------
(* process_analytics_data: the aggregation of one metrics response. *)

\* sum(data[field] for data in d.values())
RECURSIVE SumField(_, _)
SumField(d, field) ==
  IF DOMAIN d = {} THEN 0
  ELSE LET k == CHOOSE x \in DOMAIN d : TRUE
       IN d[k][field] + SumField([x \in DOMAIN d \ {k} |-> d[x]], field)

\* d[k] = v on a dict held as a function.
Put(d, k, v) == [x \in DOMAIN d \cup {k} |-> IF x = k THEN v ELSE d[x]]

\* A slip of lines 168-169: = for +=, the day's last stat replacing the sum.
add_line_stat_overwrite(cascade_lines_data, line_stat) ==
  Put(cascade_lines_data, Get(line_stat, "day", ""),
      [lines_suggested |-> IntField(line_stat, "linesSuggested"),
       lines_accepted |-> IntField(line_stat, "linesAccepted")])

\* Lines 163-169: the day bucket of a line stat, created at zero when the day
\* is new, then increased by the stat's two counts.
add_line_stat(cascade_lines_data, line_stat) ==
  LET day == Get(line_stat, "day", "")
      bucket == Get(cascade_lines_data, day,
                    [lines_suggested |-> 0, lines_accepted |-> 0])
  IN Put(cascade_lines_data, day,
         [lines_suggested |->
            bucket.lines_suggested + IntField(line_stat, "linesSuggested"),
          lines_accepted |->
            bucket.lines_accepted + IntField(line_stat, "linesAccepted")])

\* Lines 160-169: for line_stat in lines_data.
RECURSIVE parse_lines(_, _)
parse_lines(cascade_lines_data, lines_data) ==
  IF Len(lines_data) = 0 THEN cascade_lines_data
  ELSE parse_lines(add_line_stat(cascade_lines_data, Head(lines_data)),
                   Tail(lines_data))

\* Lines 174-185: the day bucket of a run stat; a cascadeId that is falsy
\* (absent or empty) is not added to the day's set.
add_run_stat(cascade_runs_data, run_stat) ==
  LET day == Get(run_stat, "day", "")
      bucket == Get(cascade_runs_data, day,
                    [messages_sent |-> 0, prompts_used |-> 0,
                     unique_cascades |-> {}])
      cascade_id == Get(run_stat, "cascadeId", "")
  IN Put(cascade_runs_data, day,
         [messages_sent |->
            bucket.messages_sent + IntField(run_stat, "messagesSent"),
          prompts_used |->
            bucket.prompts_used + IntField(run_stat, "promptsUsed"),
          unique_cascades |->
            IF cascade_id # "" THEN bucket.unique_cascades \cup {cascade_id}
            ELSE bucket.unique_cascades])

\* Lines 173-185: for run_stat in runs_data.
RECURSIVE parse_runs(_, _)
parse_runs(cascade_runs_data, runs_data) ==
  IF Len(runs_data) = 0 THEN cascade_runs_data
  ELSE parse_runs(add_run_stat(cascade_runs_data, Head(runs_data)),
                  Tail(runs_data))

\* The tool-usage dict keeps its insertion order (a Python dict does): it is a
\* sequence of <<tool, count>> pairs, one per tool name.
ToolNames(cascade_tool_usage_data) ==
  {cascade_tool_usage_data[i][1] : i \in 1..Len(cascade_tool_usage_data)}

\* Lines 190-192: cascade_tool_usage_data[tool] = get(tool, 0) + count.
add_tool_stat(cascade_tool_usage_data, tool_stat) ==
  LET tool == Get(tool_stat, "tool", <<>>)
      count == IntField(tool_stat, "count")
  IN IF tool \in ToolNames(cascade_tool_usage_data)
     THEN [i \in 1..Len(cascade_tool_usage_data) |->
             IF cascade_tool_usage_data[i][1] = tool
             THEN <<tool, cascade_tool_usage_data[i][2] + count>>
             ELSE cascade_tool_usage_data[i]]
     ELSE Append(cascade_tool_usage_data, <<tool, count>>)

\* Lines 189-192: for tool_stat in tool_data.
RECURSIVE parse_tools(_, _)
parse_tools(cascade_tool_usage_data, tool_data) ==
  IF Len(tool_data) = 0 THEN cascade_tool_usage_data
  ELSE parse_tools(add_tool_stat(cascade_tool_usage_data, Head(tool_data)),
                   Tail(tool_data))

\* Lines 158-192: one result entry goes to the first category whose key it
\* holds (if / elif / elif); an entry with none of the keys is ignored.
parse_result(parsed, result) ==
  IF "cascadeLines" \in DOMAIN result
  THEN [parsed EXCEPT !.cascade_lines_data =
          parse_lines(@, Get(result["cascadeLines"], "cascadeLines", <<>>))]
  ELSE IF "cascadeRuns" \in DOMAIN result
  THEN [parsed EXCEPT !.cascade_runs_data =
          parse_runs(@, Get(result["cascadeRuns"], "cascadeRuns", <<>>))]
  ELSE IF "cascadeToolUsage" \in DOMAIN result
  THEN [parsed EXCEPT !.cascade_tool_usage_data =
          parse_tools(@, Get(result["cascadeToolUsage"], "cascadeToolUsage",
                             <<>>))]
  ELSE parsed

\* Lines 150-192: for result in query_results.
RECURSIVE parse_results(_, _)
parse_results(parsed, query_results) ==
  IF Len(query_results) = 0 THEN parsed
  ELSE parse_results(parse_result(parsed, Head(query_results)),
                     Tail(query_results))

parse_query_results(data) ==
  parse_results([cascade_lines_data |-> EmptyDict,
                 cascade_runs_data |-> EmptyDict,
                 cascade_tool_usage_data |-> <<>>],
                Get(data, "queryResults", <<>>))

\* A slip of lines 204-208: the per-day counts added up.
RECURSIVE count_unique_cascades_per_day(_)
count_unique_cascades_per_day(cascade_runs_data) ==
  IF DOMAIN cascade_runs_data = {} THEN 0
  ELSE LET d == CHOOSE x \in DOMAIN cascade_runs_data : TRUE
       IN Cardinality(cascade_runs_data[d].unique_cascades)
          + count_unique_cascades_per_day(
              [x \in DOMAIN cascade_runs_data \ {d} |-> cascade_runs_data[x]])

\* Lines 204-208: the size of the union of the per-day sets.
count_unique_cascades(cascade_runs_data) ==
  Cardinality(UNION {cascade_runs_data[d].unique_cascades :
                       d \in DOMAIN cascade_runs_data})

\* The value of (accepted / suggested * 100) in hundredths, rounded to the
\* nearest hundredth as "{:.2f}" rounds it (ties to even).
PercentHundredths(accepted, suggested) ==
  LET n == accepted * 10000
      q == n \div suggested
      r == n % suggested
  IN IF 2 * r > suggested \/ (2 * r = suggested /\ q % 2 = 1) THEN q + 1 ELSE q

\* Line 220: the acceptance rate. The division raises ZeroDivisionError on a
\* zero divisor; the conditional expression guards it.
DivideOrRaise(accepted, suggested) ==
  IF suggested = 0 THEN <<"ZeroDivisionError">>
  ELSE Fixed2(PercentHundredths(accepted, suggested)) \o <<"%">>

\* A slip of line 220: the guard on the dividend instead of the divisor.
acceptance_rate_guard_accepted(total_lines_accepted, total_lines_suggested) ==
  IF total_lines_accepted > 0
  THEN DivideOrRaise(total_lines_accepted, total_lines_suggested)
  ELSE <<"0%">>

acceptance_rate(total_lines_accepted, total_lines_suggested) ==
  IF total_lines_suggested > 0
  THEN DivideOrRaise(total_lines_accepted, total_lines_suggested)
  ELSE <<"0%">>

\* Lines 228-229: record[f"tool_{tool.lower()}"] = count, in the dict's order;
\* a later tool with the same lower-cased name overwrites an earlier one.
RECURSIVE add_tool_columns(_, _)
add_tool_columns(record, cascade_tool_usage_data) ==
  IF Len(cascade_tool_usage_data) = 0 THEN record
  ELSE LET tool == Head(cascade_tool_usage_data)[1]
           count == Head(cascade_tool_usage_data)[2]
       IN add_tool_columns(Put(record, tool_prefix \o Lower(tool), count),
                           Tail(cascade_tool_usage_data))

\* Lines 196-229: the record of one user.
make_record(user, parsed) ==
  LET total_lines_suggested ==
        SumField(parsed.cascade_lines_data, "lines_suggested")
      total_lines_accepted ==
        SumField(parsed.cascade_lines_data, "lines_accepted")
      total_messages_sent ==
        SumField(parsed.cascade_runs_data, "messages_sent")
      total_prompts_used ==
        SumField(parsed.cascade_runs_data, "prompts_used")
      record ==
        (k_email :> Get(user, "email", ""))
        @@ (k_name :> Get(user, "name", ""))
        @@ (k_active_days :> Get(user, "activeDays", 0))
        @@ (k_last_update_time :> Get(user, "lastUpdateTime", ""))
        @@ (k_last_autocomplete_usage :>
              Get(user, "lastAutocompleteUsageTime", ""))
        @@ (k_last_chat_usage :> Get(user, "lastChatUsageTime", ""))
        @@ (k_last_command_usage :> Get(user, "lastCommandUsageTime", ""))
        @@ (k_total_lines_suggested :> total_lines_suggested)
        @@ (k_total_lines_accepted :> total_lines_accepted)
        @@ (k_acceptance_rate :>
              acceptance_rate(total_lines_accepted, total_lines_suggested))
        @@ (k_total_messages_sent :> total_messages_sent)
        @@ (k_total_prompts_used_cents :> total_prompts_used)
        @@ (k_total_prompts_used_credits :> Fixed2(total_prompts_used))
        @@ (k_total_unique_cascades :>
              count_unique_cascades(parsed.cascade_runs_data))
  IN add_tool_columns(record, parsed.cascade_tool_usage_data)

\* Lines 135-233: one record per user of the list, all from the same response.
process_analytics_data(user_list, data) ==
  LET parsed == parse_query_results(data)
  IN [i \in 1..Len(user_list) |-> make_record(user_list[i], parsed)]

----------------------------------------------------------------------------
(* export_to_csv. *)

\* A slip of lines 247-252: the first record's keys alone.
fieldnames_first_record(records) == Sorted(DOMAIN records[1])

\* Lines 247-252: the sorted union of the records' keys.
fieldnames(records) ==
  Sorted(UNION {DOMAIN records[i] : i \in 1..Len(records)})

\* csv.DictWriter's cell for a column: the record's value (one piece of
\* text), or restval '' (no text) when the record lacks the column.
Cell(record, key) == IF key \in DOMAIN record THEN <<record[key]>> ELSE <<>>

\* Lines 258-260: writeheader, then writerows in the records' order.
csv_contents(records) ==
  LET header == fieldnames(records)
  IN [exists |-> TRUE,
      header |-> header,
      rows |-> [i \in 1..Len(records) |->
                  [j \in 1..Len(header) |-> Cell(records[i], header[j])]]]

NoFile == [exists |-> FALSE, header |-> <<>>, rows |-> <<>>]

----------------------------------------------------------------------------
(* The environment: what the two endpoints may answer. *)

\* A roster entry: the email is absent, empty or one of two addresses; the
\* profile is complete or holds a name only.
RosterUsers ==
  {e @@ p :
     e \in {EmptyDict, "email" :> "", "email" :> "a@x.com",
            "email" :> "b@x.com"},
     p \in {("name" :> "A") @@ ("activeDays" :> 5)
              @@ ("lastUpdateTime" :> "t1")
              @@ ("lastAutocompleteUsageTime" :> "t2")
              @@ ("lastChatUsageTime" :> "t3")
              @@ ("lastCommandUsageTime" :> "t4"),
            "name" :> "B"}}

Rosters == UNION {[1..n -> RosterUsers] : n \in 0..MaxUsers}

BatchSizes == {1, 2, 10}

\* Tool names "A", "a" and "b".
ToolA == <<65>>
Toola == <<97>>
Toolb == <<98>>

\* The stat entries of each category of a metrics response.
LineStats ==
  {d @@ c :
     d \in {EmptyDict, "day" :> "d1", "day" :> "d2"},
     c \in {("linesSuggested" :> <<3>>) @@ ("linesAccepted" :> <<1>>),
            ("linesSuggested" :> <<0>>) @@ ("linesAccepted" :> <<1>>)}}

RunStats ==
  {d @@ c :
     d \in {"day" :> "d1", "day" :> "d2"},
     c \in {("messagesSent" :> <<1>>) @@ ("promptsUsed" :> <<2, 5, 0>>)
              @@ ("cascadeId" :> "c1"),
            ("messagesSent" :> <<2>>) @@ ("cascadeId" :> "c2"),
            ("promptsUsed" :> <<7>>) @@ ("cascadeId" :> "")}}
  \cup {"promptsUsed" :> <<1>>}

ToolStats ==
  {("tool" :> n) @@ ("count" :> c) :
     n \in {ToolA, Toola, Toolb}, c \in {<<1>>, <<2>>}}
  \cup {EmptyDict}

Categories == {"cascadeLines", "cascadeRuns", "cascadeToolUsage"}

Stats(category) ==
  CASE category = "cascadeLines" -> LineStats
    [] category = "cascadeRuns" -> RunStats
    [] category = "cascadeToolUsage" -> ToolStats

\* A result entry of one category: {category: {category: [stats]}}.
Result(category, stats) == category :> (category :> stats)

\* The responses a metrics request of a run may get: one with lines, runs and
\* a tool, one with another tool and two entries for it, and one without
\* results.
SampleResponses ==
  {"queryResults" :>
     <<Result("cascadeLines",
              <<("day" :> "d1") @@ ("linesSuggested" :> <<3>>)
                  @@ ("linesAccepted" :> <<1>>)>>),
       Result("cascadeRuns",
              <<("day" :> "d1") @@ ("messagesSent" :> <<1>>)
                  @@ ("promptsUsed" :> <<2, 5, 0>>)
                  @@ ("cascadeId" :> "c1")>>),
       Result("cascadeToolUsage",
              <<("tool" :> ToolA) @@ ("count" :> <<1>>)>>)>>,
   "queryResults" :>
     <<Result("cascadeToolUsage",
              <<("tool" :> Toolb) @@ ("count" :> <<1>>),
                ("tool" :> Toolb) @@ ("count" :> <<2>>)>>)>>,
   "queryResults" :> <<>>}

----------------------------------------------------------------------------
(* run_export and the process around it. *)

RosterRequest == [url |-> "UserPageAnalytics", emails |-> <<>>]

\* A slip of lines 303-305: batch_size honoured, a batch of emails a request.
request_emails_batch(email_list, i, batch) ==
  SubSeq(email_list, i, Min(i + batch - 1, Len(email_list)))

\* Lines 303-305: the emails of one metrics request.
request_emails(email_list, i, batch) == <<email_list[i]>>

MetricsRequest(email_list) ==
  [url |-> "CascadeAnalytics", emails |-> email_list]

\* Line 296: [user["email"] for user in users if user.get("email")].
RECURSIVE emails_of(_)
emails_of(user_list) ==
  IF Len(user_list) = 0 THEN <<>>
  ELSE (IF Get(Head(user_list), "email", "") # ""
        THEN <<Head(user_list)["email"]>> ELSE <<>>)
       \o emails_of(Tail(user_list))

\* A slip of line 308: the last match instead of the first.
user_obj_last_match(user_list, email) ==
  LET matches == {i \in 1..Len(user_list) :
                    Get(user_list[i], "email", "") = email}
  IN IF matches = {} THEN <<>>
     ELSE <<user_list[CHOOSE i \in matches : \A j \in matches : i >= j]>>

\* Line 308: next((u for u in users if u.get("email") == email), None), as a
\* list of the match found (empty for None). email is never empty, so an
\* absent email (None) and an empty one both fail to match.
user_obj(user_list, email) ==
  LET matches == {i \in 1..Len(user_list) :
                    Get(user_list[i], "email", "") = email}
  IN IF matches = {} THEN <<>>
     ELSE <<user_list[CHOOSE i \in matches : \A j \in matches : i <= j]>>

\* Lines 308-312: the records the loop body appends for one response.
loop_records(user_list, email, data) ==
  LET found == user_obj(user_list, email)
  IN IF Len(found) = 0 THEN <<>> ELSE process_analytics_data(found, data)

Init ==
  /\ pc = "start"
  /\ batch_size \in BatchSizes
  /\ users = <<>>
  /\ emails = <<>>
  /\ idx = 1
  /\ analytics_data = EmptyDict
  /\ all_records = <<>>
  /\ requests = <<>>
  /\ writer_calls = <<>>
  /\ csv_file = NoFile
  /\ exit_status = "running"
  /\ log = <<>>
  /\ failed = {}

\* Lines 285-288, 71: run_export starts and get_user_emails posts the roster
\* request.
PostRoster ==
  /\ pc = "start"
  /\ requests' = Append(requests, RosterRequest)
  /\ pc' = "roster"
  /\ UNCHANGED <<failed, batch_size, users, emails, idx, analytics_data,
                 all_records, writer_calls, csv_file, exit_status, log>>

\* A slip of lines 290-292: the empty roster is reported but run_export does
\* not return.
RosterOkNoEarlyReturn ==
  /\ pc = "roster"
  /\ \E roster \in Rosters :
       /\ users' = roster
       /\ log' = IF Len(roster) = 0 THEN Append(log, "No users found") ELSE log
       /\ emails' = emails_of(roster)
       /\ idx' = 1
       /\ all_records' = <<>>
       /\ pc' = "loop"
  /\ UNCHANGED <<failed, batch_size, analytics_data, requests, writer_calls,
                 csv_file, exit_status>>

\* Lines 72-78, 290-298: the roster arrives. An empty roster ends run_export
\* (and the process, with status 0); otherwise the emails are collected and
\* the loop starts.
RosterOk ==
  /\ pc = "roster"
  /\ \E roster \in Rosters :
       /\ users' = roster
       /\ IF Len(roster) = 0
          THEN /\ log' = Append(log, "No users found")
               /\ pc' = "done"
               /\ exit_status' = "0"
               /\ UNCHANGED <<emails, idx, all_records>>
          ELSE /\ emails' = emails_of(roster)
               /\ idx' = 1
               /\ all_records' = <<>>
               /\ pc' = "loop"
               /\ UNCHANGED <<log, exit_status>>
  /\ UNCHANGED <<failed, batch_size, analytics_data, requests, writer_calls,
                 csv_file>>

\* A slip of lines 80-84: the failure handled like the metrics one, an empty
\* roster returned instead of sys.exit(1).
RosterErrorReturnsEmpty ==
  /\ pc = "roster"
  /\ log' = log \o <<"Error fetching user emails", "No users found">>
  /\ pc' = "done"
  /\ exit_status' = "0"
  /\ UNCHANGED <<failed, batch_size, users, emails, idx, analytics_data,
                 all_records, requests, writer_calls, csv_file>>

\* Lines 80-84: the roster request fails; sys.exit(1).
RosterError ==
  /\ pc = "roster"
  /\ log' = Append(log, "Error fetching user emails")
  /\ pc' = "done"
  /\ exit_status' = "1"
  /\ UNCHANGED <<failed, batch_size, users, emails, idx, analytics_data,
                 all_records, requests, writer_calls, csv_file>>

\* Lines 299-305, 124: the loop takes the next email and get_cascade_analytics
\* posts the metrics request.
PostMetrics ==
  /\ pc = "loop"
  /\ idx <= Len(emails)
  /\ requests' =
       Append(requests, MetricsRequest(request_emails(emails, idx, batch_size)))
  /\ pc' = "metrics"
  /\ UNCHANGED <<failed, batch_size, users, emails, idx, analytics_data,
                 all_records, writer_calls, csv_file, exit_status, log>>

\* Lines 308-312, then the loop's next turn: the response is aggregated and
\* its records appended.
Aggregated(data) ==
  /\ analytics_data' = data
  /\ all_records' = all_records \o loop_records(users, emails[idx], data)
  /\ idx' = idx + 1
  /\ pc' = "loop"

\* Lines 125-127: the metrics response arrives.
MetricsOk ==
  /\ pc = "metrics"
  /\ \E data \in SampleResponses : Aggregated(data)
  /\ UNCHANGED <<failed, batch_size, users, emails, requests, writer_calls,
                 csv_file, exit_status, log>>

\* A slip of lines 129-133: the failure handled like the roster one,
\* sys.exit(1) instead of return {}.
MetricsErrorFatal ==
  /\ pc = "metrics"
  /\ failed' = failed \cup {idx}
  /\ log' = Append(log, "Error fetching cascade analytics")
  /\ pc' = "done"
  /\ exit_status' = "1"
  /\ UNCHANGED <<batch_size, users, emails, idx, analytics_data, all_records,
                 requests, writer_calls, csv_file>>

\* Lines 129-133: the metrics request fails; get_cascade_analytics returns {}.
MetricsError ==
  /\ pc = "metrics"
  /\ Aggregated(EmptyDict)
  /\ failed' = failed \cup {idx}
  /\ log' = Append(log, "Error fetching cascade analytics")
  /\ UNCHANGED <<batch_size, users, emails, requests, writer_calls, csv_file,
                 exit_status>>

\* Lines 315, 243-262, 317: after the loop export_to_csv is called; without
\* records it only prints, with records it writes the file. run_export then
\* prints the summary and the process ends with status 0.
ExportToCsv ==
  /\ pc = "loop"
  /\ idx > Len(emails)
  /\ writer_calls' = Append(writer_calls, all_records)
  /\ IF Len(all_records) = 0
     THEN /\ log' = log \o <<"No records to export", "Export completed">>
          /\ UNCHANGED csv_file
     ELSE /\ csv_file' = csv_contents(all_records)
          /\ log' = Append(log, "Export completed")
  /\ pc' = "done"
  /\ exit_status' = "0"
  /\ UNCHANGED <<failed, batch_size, users, emails, idx, analytics_data,
                 all_records, requests>>

\* Lines 256-257, 264-266: opening or writing the file raises; sys.exit(1).
\* The file is taken not to have been created.
ExportToCsvError ==
  /\ pc = "loop"
  /\ idx > Len(emails)
  /\ Len(all_records) > 0
  /\ writer_calls' = Append(writer_calls, all_records)
  /\ log' = Append(log, "Error writing CSV file")
  /\ pc' = "done"
  /\ exit_status' = "1"
  /\ UNCHANGED <<failed, batch_size, users, emails, idx, analytics_data,
                 all_records, requests, csv_file>>

Next ==
  \/ PostRoster
  \/ RosterOk
  \/ RosterError
  \/ PostMetrics
  \/ MetricsOk
  \/ MetricsError
  \/ ExportToCsv
  \/ ExportToCsvError

Spec == Init /\ [][Next]_vars

----------------------------------------------------------------------------
(* process_analytics_data on its own: a metrics response is decoded entry  *)
(* by entry, over every shape up to MaxStats entries, and then aggregated  *)
(* for one user.                                                           *)

query_results_of(data) == Get(data, "queryResults", <<>>)

\* The stats of a result entry that holds a category's list, else none.
StatsOfResult(result) ==
  IF \E c \in Categories : c \in DOMAIN result /\ c \in DOMAIN result[c]
  THEN LET c == CHOOSE c \in Categories :
                  c \in DOMAIN result /\ c \in DOMAIN result[c]
       IN result[c][c]
  ELSE <<>>

\* The entries of a response: its stats, a result without stats counting one.
RECURSIVE ResponseSize(_)
ResponseSize(results) ==
  IF Len(results) = 0 THEN 0
  ELSE (IF Len(StatsOfResult(Head(results))) = 0 THEN 1
        ELSE Len(StatsOfResult(Head(results))))
       + ResponseSize(Tail(results))

\* Results that carry no stat: no category at all, a category whose inner
\* dict lacks the list, a category with an empty list.
EmptyResults ==
  {EmptyDict} \cup {c :> EmptyDict : c \in Categories}
  \cup {Result(c, <<>>) : c \in Categories}

\* Results that carry one stat of their category.
FirstResults ==
  UNION {{Result(c, <<s>>) : s \in Stats(c)} : c \in Categories}

\* The users process_analytics_data is applied for.
AggUsers == {r \in RosterUsers : Get(r, "email", "") = "a@x.com"}

InitAgg ==
  /\ pc = "decode"
  /\ batch_size = 1
  /\ users \in {<<u>> : u \in AggUsers}
  /\ emails = <<>>
  /\ idx = 1
  /\ analytics_data \in {EmptyDict, "queryResults" :> <<>>}
  /\ all_records = <<>>
  /\ requests = <<>>
  /\ writer_calls = <<>>
  /\ csv_file = NoFile
  /\ exit_status = "running"
  /\ log = <<>>
  /\ failed = {}

CanDecode ==
  /\ pc = "decode"
  /\ "queryResults" \in DOMAIN analytics_data
  /\ ResponseSize(analytics_data["queryResults"]) < MaxStats

\* The response's next result entry starts: one without stats, or one with
\* its first stat.
DecodeResult ==
  /\ CanDecode
  /\ \E result \in EmptyResults \cup FirstResults :
       analytics_data' =
         ("queryResults" :> Append(analytics_data["queryResults"], result))
  /\ UNCHANGED <<pc, batch_size, users, emails, idx, all_records, requests,
                 writer_calls, csv_file, exit_status, log, failed>>

\* One more stat of the last result entry's list.
DecodeStat ==
  /\ CanDecode
  /\ LET results == analytics_data["queryResults"]
         n == Len(results)
     IN /\ n > 0
        /\ \E c \in Categories :
             /\ c \in DOMAIN results[n]
             /\ c \in DOMAIN results[n][c]
             /\ Len(results[n][c][c]) > 0
             /\ \E s \in Stats(c) :
                  analytics_data' =
                    ("queryResults" :>
                       [results EXCEPT ![n] =
                          Result(c, Append(results[n][c][c], s))])
  /\ UNCHANGED <<pc, batch_size, users, emails, idx, all_records, requests,
                 writer_calls, csv_file, exit_status, log, failed>>

\* Lines 135-233: process_analytics_data(users, analytics_data).
Aggregate ==
  /\ pc = "decode"
  /\ all_records' = process_analytics_data(users, analytics_data)
  /\ pc' = "aggregated"
  /\ UNCHANGED <<batch_size, users, emails, idx, analytics_data, requests,
                 writer_calls, csv_file, exit_status, log, failed>>

NextAgg ==
  \/ DecodeResult
  \/ DecodeStat
  \/ Aggregate

SpecAgg == InitAgg /\ [][NextAgg]_vars

----------------------------------------------------------------------------
(* What the properties below are stated with: the inputs read directly,    *)
(* not through the exporter's own data structures.                         *)

Logged(message) == \E i \in 1..Len(log) : log[i] = message

HasEmail(u) == Get(u, "email", "") # ""

\* The roster entries that have an email, in roster order.
UsersWithEmail == SelectSeq(users, HasEmail)

MetricsRequestCount ==
  Cardinality({k \in 1..Len(requests) : requests[k].url = "CascadeAnalytics"})

RosterRequestCount ==
  Cardinality({k \in 1..Len(requests) : requests[k].url = "UserPageAnalytics"})

IsToolKey(key) ==
  Len(key) >= Len(tool_prefix) /\ SubSeq(key, 1, Len(tool_prefix)) = tool_prefix

\* The positions <<i, j>> of the stats of one category in a response. (Every
\* result entry of the responses modelled holds at most one category.)
StatPositions(data, category) ==
  LET results == query_results_of(data)
  IN UNION {IF category \in DOMAIN results[i]
               /\ category \in DOMAIN results[i][category]
            THEN {<<i, j>> : j \in 1..Len(results[i][category][category])}
            ELSE {} : i \in 1..Len(results)}

StatAt(data, category, pos) ==
  query_results_of(data)[pos[1]][category][category][pos[2]]

\* The number a decimal string denotes.
RECURSIVE DecimalValue(_)
DecimalValue(digits) ==
  IF Len(digits) = 0 THEN 0
  ELSE Head(digits) * 10 ^ (Len(digits) - 1) + DecimalValue(Tail(digits))

\* The sum of one count over a set of positions; an absent count is 0.
RECURSIVE SumAt(_, _, _, _)
SumAt(data, category, key, positions) ==
  IF positions = {} THEN 0
  ELSE LET pos == CHOOSE x \in positions : TRUE
           stat == StatAt(data, category, pos)
       IN (IF key \in DOMAIN stat THEN DecimalValue(stat[key]) ELSE 0)
          + SumAt(data, category, key, positions \ {pos})

SumOfAll(data, category, key) ==
  SumAt(data, category, key, StatPositions(data, category))

ZeroAggregates(record) ==
  /\ record[k_total_lines_suggested] = 0
  /\ record[k_total_lines_accepted] = 0
  /\ record[k_total_messages_sent] = 0
  /\ record[k_total_prompts_used_cents] = 0
  /\ record[k_total_unique_cascades] = 0
  /\ record[k_acceptance_rate] = <<"0%">>
  /\ \A key \in DOMAIN record : ~IsToolKey(key)

----------------------------------------------------------------------------
(* The properties. *)

\* C1: a failed metrics request does not abort the run. The user of a failed
\* request has exactly one record, at its place, with all aggregates zero,
\* "0%" and no tool column; the run goes on (until it is done it stays in the
\* loop, where the next request or the export is due, and has not exited); at
\* the end every email was requested and processed and the CSV writer was
\* called with the records, a non-zero status coming from the write alone.
Inv_C1_MetricsFailureNonFatal ==
  /\ \A i \in failed :
       /\ i <= Len(all_records)
       /\ all_records[i][k_email] = emails[i]
       /\ ZeroAggregates(all_records[i])
  /\ failed # {} =>
       /\ pc = "loop" => Len(all_records) = idx - 1
       /\ pc # "done" =>
            /\ exit_status = "running"
            /\ pc \in {"loop", "metrics"}
            /\ idx <= Len(emails) + 1
       /\ pc = "done" =>
            /\ MetricsRequestCount = Len(emails)
            /\ Len(all_records) = Len(emails)
            /\ Len(writer_calls) = 1
            /\ writer_calls[1] = all_records
            /\ exit_status = "1" => Logged("Error writing CSV file")

Witness_C1 ==
  /\ pc = "done"
  /\ failed = {1}
  /\ Len(all_records) = 2
  /\ \E key \in DOMAIN all_records[2] : IsToolKey(key)
  /\ csv_file.exists

\* C2: a failed roster fetch ends the process at once with a non-zero status:
\* only the roster request was ever issued, no record was aggregated, the CSV
\* writer was not called and there is no output file.
Inv_C2_RosterFailureFatal ==
  Logged("Error fetching user emails") =>
    /\ pc = "done"
    /\ ~ENABLED Next
    /\ exit_status = "1"
    /\ requests = <<RosterRequest>>
    /\ Len(all_records) = 0
    /\ Len(writer_calls) = 0
    /\ ~csv_file.exists

Witness_C2 == Logged("Error fetching user emails") /\ pc = "done"

\* The roster fetch succeeded and returned no user.
RosterEmpty ==
  /\ pc \notin {"start", "roster"}
  /\ ~Logged("Error fetching user emails")
  /\ Len(users) = 0

\* C3, as claimed: on an empty roster no metrics request is made, the CSV
\* writer is called with an empty list, no file is produced, "no users" is
\* logged and the process ends without an error status.
CE_C3_WriterCalledOnEmptyRoster ==
  RosterEmpty =>
    /\ pc = "done"
    /\ MetricsRequestCount = 0
    /\ Len(writer_calls) = 1
    /\ ~csv_file.exists
    /\ Logged("No users found")
    /\ exit_status = "0"

\* C3, amended: on an empty roster no metrics request is made, the CSV writer
\* is NOT called at all, no file is produced, "no users" is logged and the
\* process ends without an error status.
Inv_C3_EmptyRosterReturnsEarly ==
  RosterEmpty =>
    /\ pc = "done"
    /\ ~ENABLED Next
    /\ MetricsRequestCount = 0
    /\ Len(writer_calls) = 0
    /\ ~Logged("No records to export")
    /\ ~csv_file.exists
    /\ Logged("No users found")
    /\ exit_status = "0"

Witness_C3 == RosterEmpty /\ pc = "done" /\ RosterRequestCount = 1

\* C4: for the non-empty records passed to export_to_csv, the file's header
\* is the union of the records' keys in strictly increasing lexicographic
\* order, there is one row per record in the records' order, and a cell holds
\* the record's value of the column, or is empty when the record lacks it.
Inv_C4_CsvHeaderAndRows ==
  /\ Len(writer_calls) = 1 /\ Len(writer_calls[1]) > 0
       /\ ~Logged("Error writing CSV file")
     => csv_file.exists
  /\ csv_file.exists =>
       /\ Len(writer_calls) = 1
       /\ LET records == writer_calls[1]
              header == csv_file.header
              rows == csv_file.rows
          IN /\ {header[j] : j \in 1..Len(header)}
                  = UNION {DOMAIN records[i] : i \in 1..Len(records)}
             /\ \A j \in 1..(Len(header) - 1) : StrLess(header[j], header[j + 1])
             /\ Len(rows) = Len(records)
             /\ \A i \in 1..Len(rows) :
                  /\ Len(rows[i]) = Len(header)
                  /\ \A j \in 1..Len(header) :
                       IF header[j] \in DOMAIN records[i]
                       THEN rows[i][j] = <<records[i][header[j]]>>
                       ELSE Len(rows[i][j]) = 0

\* Two records: the first has a tool_a column only, the second a tool_b
\* column only; the header is the sorted union and the first row's tool_b
\* cell is empty.
Witness_C4 ==
  /\ csv_file.exists
  /\ Len(csv_file.rows) = 2
  /\ csv_file.header =
       <<k_acceptance_rate, k_active_days, k_email, k_last_autocomplete_usage,
         k_last_chat_usage, k_last_command_usage, k_last_update_time, k_name,
         tool_prefix \o Toola, tool_prefix \o Toolb, k_total_lines_accepted,
         k_total_lines_suggested, k_total_messages_sent,
         k_total_prompts_used_cents, k_total_prompts_used_credits,
         k_total_unique_cascades>>
  /\ Len(csv_file.rows[1][10]) = 0
  /\ Len(csv_file.rows[2][9]) = 0
  /\ csv_file.rows[2][10] = <<3>>

\* The non-empty cascadeId values of all run-stat entries of a response.
RunIds(data) ==
  {Get(StatAt(data, "cascadeRuns", pos), "cascadeId", "") :
     pos \in StatPositions(data, "cascadeRuns")} \ {""}

\* C5: total_unique_cascades is the number of distinct non-empty cascadeId
\* values over all run-stat entries of all days.
Inv_C5_UniqueCascadesIsUnionSize ==
  pc = "aggregated" =>
    all_records[1][k_total_unique_cascades]
      = Cardinality(RunIds(analytics_data))

\* The same session id on two different days counts once.
Witness_C5 ==
  /\ pc = "aggregated"
  /\ \E p, q \in StatPositions(analytics_data, "cascadeRuns") :
       LET a == StatAt(analytics_data, "cascadeRuns", p)
           b == StatAt(analytics_data, "cascadeRuns", q)
       IN /\ "day" \in DOMAIN a /\ "day" \in DOMAIN b /\ a["day"] # b["day"]
          /\ Get(a, "cascadeId", "") = "c1" /\ Get(b, "cascadeId", "") = "c1"
  /\ all_records[1][k_total_unique_cascades] = 1

\* The tool names of a response's tool-usage entries (an entry without a name
\* has the empty name).
ToolNamesOf(data) ==
  {Get(StatAt(data, "cascadeToolUsage", pos), "tool", <<>>) :
     pos \in StatPositions(data, "cascadeToolUsage")}

ToolCountSum(data, tool) ==
  SumAt(data, "cascadeToolUsage", "count",
        {pos \in StatPositions(data, "cascadeToolUsage") :
           Get(StatAt(data, "cascadeToolUsage", pos), "tool", <<>>) = tool})

\* C6, as claimed: for every tool name t of the response the record has the
\* field "tool_" + lowercase(t), valued the sum of the counts of the entries
\* named t, and the record has no other tool_ field.
CE_C6_ToolColumnsAreSums ==
  pc = "aggregated" =>
    /\ \A tool \in ToolNamesOf(analytics_data) :
         /\ tool_prefix \o Lower(tool) \in DOMAIN all_records[1]
         /\ all_records[1][tool_prefix \o Lower(tool)]
              = ToolCountSum(analytics_data, tool)
    /\ \A key \in DOMAIN all_records[1] :
         IsToolKey(key) =>
           \E tool \in ToolNamesOf(analytics_data) :
             key = tool_prefix \o Lower(tool)

\* C7: a response whose suggested-lines total is 0 gets the acceptance rate
\* "0%", and no response makes the rate's division divide by zero.
Inv_C7_ZeroSuggestedGivesZeroPercent ==
  pc = "aggregated" =>
    /\ all_records[1][k_acceptance_rate] # <<"ZeroDivisionError">>
    /\ SumOfAll(analytics_data, "cascadeLines", "linesSuggested") = 0
         => all_records[1][k_acceptance_rate] = <<"0%">>

\* Lines were accepted, none suggested.
Witness_C7 ==
  /\ pc = "aggregated"
  /\ StatPositions(analytics_data, "cascadeLines") # {}
  /\ SumOfAll(analytics_data, "cascadeLines", "linesSuggested") = 0
  /\ all_records[1][k_total_lines_accepted] = 1
  /\ all_records[1][k_acceptance_rate] = <<"0%">>

ProfileOf(record) ==
  <<record[k_name], record[k_active_days], record[k_last_update_time],
    record[k_last_autocomplete_usage], record[k_last_chat_usage],
    record[k_last_command_usage]>>

ProfileOfUser(u) ==
  <<Get(u, "name", ""), Get(u, "activeDays", 0), Get(u, "lastUpdateTime", ""),
    Get(u, "lastAutocompleteUsageTime", ""), Get(u, "lastChatUsageTime", ""),
    Get(u, "lastCommandUsageTime", "")>>

\* C8, as claimed: after a run on a non-empty roster the CSV writer got one
\* record per roster entry, the i-th carrying the i-th entry's email and
\* profile.
CE_C8_OneRecordPerRosterEntry ==
  pc = "done" /\ Len(users) > 0 =>
    /\ Len(writer_calls) = 1
    /\ Len(writer_calls[1]) = Len(users)
    /\ \A i \in 1..Len(users) :
         /\ writer_calls[1][i][k_email] = Get(users[i], "email", "")
         /\ ProfileOf(writer_calls[1][i]) = ProfileOfUser(users[i])

\* The first roster entry with the email.
FirstWithEmail(email) ==
  users[CHOOSE i \in 1..Len(users) :
          /\ Get(users[i], "email", "") = email
          /\ \A j \in 1..(i - 1) : Get(users[j], "email", "") # email]

\* C8, amended: after a run on a non-empty roster the CSV writer got one
\* record per roster entry that has a non-empty email, in roster order; the
\* i-th record carries the email of the i-th such entry and the profile of
\* the first roster entry with that email. Entries without email get none.
Inv_C8_OneRecordPerEmail ==
  pc = "done" /\ Len(users) > 0 =>
    /\ Len(writer_calls) = 1
    /\ Len(writer_calls[1]) = Len(UsersWithEmail)
    /\ \A i \in 1..Len(UsersWithEmail) :
         /\ writer_calls[1][i][k_email] = UsersWithEmail[i]["email"]
         /\ ProfileOf(writer_calls[1][i])
              = ProfileOfUser(FirstWithEmail(UsersWithEmail[i]["email"]))

\* Two entries share an email and differ in their names: both records carry
\* the first entry's name.
Witness_C8 ==
  /\ pc = "done"
  /\ Len(users) = 2
  /\ Len(writer_calls) = 1
  /\ Len(writer_calls[1]) = 2
  /\ Get(users[1], "email", "") = Get(users[2], "email", "")
  /\ users[1]["name"] # users[2]["name"]
  /\ writer_calls[1][2][k_name] = users[1]["name"]

Inv_C10_TotalsAreExactSums ==
  pc = "aggregated" =>
    /\ all_records[1][k_total_lines_suggested]
         = SumOfAll(analytics_data, "cascadeLines", "linesSuggested")
    /\ all_records[1][k_total_lines_accepted]
         = SumOfAll(analytics_data, "cascadeLines", "linesAccepted")
    /\ all_records[1][k_total_messages_sent]
         = SumOfAll(analytics_data, "cascadeRuns", "messagesSent")
    /\ all_records[1][k_total_prompts_used_cents]
         = SumOfAll(analytics_data, "cascadeRuns", "promptsUsed")

\* Two line stats of the same day in two result entries of the category.
Witness_C10 ==
  /\ pc = "aggregated"
  /\ Len(query_results_of(analytics_data)) = 2
  /\ \E p, q \in StatPositions(analytics_data, "cascadeLines") :
       /\ p[1] # q[1]
       /\ "day" \in DOMAIN StatAt(analytics_data, "cascadeLines", p)
       /\ StatAt(analytics_data, "cascadeLines", p)
            = StatAt(analytics_data, "cascadeLines", q)
  /\ all_records[1][k_total_lines_suggested] = 6
  /\ all_records[1][k_total_lines_accepted] = 2

====
